---------------------------- MODULE Spec2Model ----------------------------
(***************************************************************************)
(* A model of GstRerunSink (RidgeRun/gst-rerunsink): the private state of   *)
(* one element instance, the GObject/GstBaseSink virtual methods            *)
(* (set_property, start, stop, render) and the three extraction routes      *)
(* (encoded, device/NVMM, host).  The RecordingStream is an external        *)
(* object: the model keeps the sequence of operations invoked on the        *)
(* stream the element currently points to.                                  *)
(***************************************************************************)
EXTENDS Integers, Sequences, FiniteSets, TLC

(***************************************************************************)
(* Bounds of the model.                                                     *)
(***************************************************************************)
\* RecordingStream objects created in one run
MaxHandles == 2
\* operations kept in the log of one RecordingStream
MaxLog == 6
\* largest width / height of a frame in the host and encoded domains
MaxDim == 2
\* largest number of padding bytes: of a mapped host buffer beyond the
\* packed frame, of a row of a device surface beyond the width
MaxExtra == 1
\* largest height of a device surface
MaxRows == 4

(***************************************************************************)
(* Program constants.                                                       *)
(***************************************************************************)
NULL == "NULL"
DEFAULT_GRPC_ADDRESS == "127.0.0.1:9876"
DEFAULT_RECORDING_ID == NULL
DEFAULT_IMAGE_PATH == NULL
DEFAULT_SPAWN_VIEWER == TRUE
DEFAULT_OUTPUT_FILE == NULL
DEFAULT_VIDEO_PATH == NULL

GST_FLOW_OK == "GST_FLOW_OK"
GST_FLOW_ERROR == "GST_FLOW_ERROR"
GST_FLOW_NOT_NEGOTIATED == "GST_FLOW_NOT_NEGOTIATED"

\* the null RecordingStream pointer; the streams are 1..MaxHandles
nullptr == 0

VARIABLES
    rec_stream,         \* priv->rec_stream: nullptr or the id of a stream
    rerun_initialized,  \* priv->rerun_initialized
    recording_id,       \* priv->recording_id
    image_path,         \* priv->image_path
    video_path,         \* priv->video_path
    spawn_viewer,       \* priv->spawn_viewer
    output_file,        \* priv->output_file
    grpc_address,       \* priv->grpc_address
    codec_sent,         \* priv->codec_sent
    streams,            \* number of RecordingStream objects created so far
    live,               \* RecordingStream objects created and not deleted
    sink,               \* operations invoked on the stream rec_stream points to
    have_nvmm,          \* the build defines HAVE_NVMM_SUPPORT
    last,               \* the last call: its inputs, result and effects
    control,            \* the control context: the set_property in progress
    streaming,          \* the streaming context: the render in progress
    freed               \* the string properties whose pointer was g_free'd
                        \* and not yet replaced

priv == <<rec_stream, rerun_initialized, recording_id, image_path, video_path,
          spawn_viewer, output_file, grpc_address, codec_sent>>
vars == <<rec_stream, rerun_initialized, recording_id, image_path, video_path,
          spawn_viewer, output_file, grpc_address, codec_sent, streams, live,
          sink, have_nvmm, last, control, streaming, freed>>
\* the positions of the two contexts and the strings freed under them; a
\* call that runs with nothing interleaved leaves them as they are
threads == <<control, streaming, freed>>

(***************************************************************************)
(* Caps and buffers, the inputs of render.  A caps structure field is <<>>  *)
(* when absent and <<v>> when present.                                      *)
(***************************************************************************)
NoCaps == [name |-> NULL, format |-> NULL, width |-> <<>>, height |-> <<>>]
Caps(name, format, width, height) ==
    [name |-> name, format |-> format, width |-> width, height |-> height]

\* the formats of FORMAT_CAPS, and one GstVideoFormat outside them
SupportedFormats == {"RGB", "RGBA", "GRAY8", "NV12", "I420"}
GstVideoFormats == SupportedFormats \cup {"YUY2"}

\* gst_structure_get_int: the value is written only when the field is there
gst_structure_get_int(field, init) == IF field = <<>> THEN init ELSE field[1]

\* gst_video_info_from_caps: raw caps with a known format and both
\* dimensions parse into a GstVideoInfo; NULL stands for the call failing
gst_video_info_from_caps(caps) ==
    IF /\ caps.name = "video/x-raw"
       /\ caps.format \in GstVideoFormats
       /\ caps.width /= <<>>
       /\ caps.height /= <<>>
    THEN [format |-> caps.format, width |-> caps.width[1],
          height |-> caps.height[1]]
    ELSE [format |-> NULL, width |-> 0, height |-> 0]

\* GST_BUFFER_DTS is an unsigned value of ClockBits bits (64 in the program)
ClockBits == 3
GST_CLOCK_TIME_NONE == 2 ^ ClockBits - 1
\* nanoseconds(GST_BUFFER_DTS(buffer)): the unsigned value converted to the
\* signed representation of the same width
nanoseconds(dts) == IF dts >= 2 ^ (ClockBits - 1) THEN dts - 2 ^ ClockBits ELSE dts

NoSurface == [width |-> 0, height |-> 0, pitch |-> <<0, 0>>,
              addr |-> <<<<>>, <<>>>>, addr_null |-> <<TRUE, TRUE>>,
              map_ok |-> FALSE, sync_ok |-> FALSE, null |-> TRUE]

NoBuffer == [allocator |-> NULL, map_ok |-> FALSE, data |-> <<>>, dts |-> 0,
             surface |-> NoSurface]

\* a GstBuffer: the allocator of its first memory, whether gst_buffer_map
\* succeeds, the mapped bytes, the decode timestamp, and for device memory
\* the NvBufSurface that map.data points to
Buffer(allocator, map_ok, data, dts, surface) ==
    [allocator |-> allocator, map_ok |-> map_ok, data |-> data, dts |-> dts,
     surface |-> surface]

\* an image or a video sample: owned bytes, and for an image its resolution
\* and pixel format
Image(bytes, width, height, format) ==
    [bytes |-> bytes, width |-> width, height |-> height, format |-> format]
\* rerun::archetypes::Image(): no bytes, no format
EmptyImage == Image(<<>>, 0, 0, NULL)

\* the record of a call: what was called, from which session state
\* (rerun_initialized before the call), what it returned and which stream
\* operations it performed, in order; for render also the caps and the
\* buffer it was given, the route it took, the image it extracted and its
\* mapping operations
Call(op, active, ret, ops) ==
    [op |-> op, active |-> active, ret |-> ret, ops |-> ops, caps |-> NoCaps,
     buffer |-> NoBuffer, route |-> NULL, image |-> EmptyImage,
     maps |-> <<>>]

\* an operation invoked on the RecordingStream: its name, the entity path
\* (or file, address, timeline) it is given and its payload
SinkOp(op, path, codec, time, image) ==
    [op |-> op, path |-> path, codec |-> codec, time |-> time, image |-> image]


\* no set_property and no render in progress
NoSetter == [prop_id |-> NULL, value |-> NULL]
NotStreaming == [pc |-> "idle", caps |-> NoCaps, buffer |-> NoBuffer,
                 ops |-> <<>>]
\* the contexts of a new element: nothing in progress, nothing freed
Quiescent == control = NoSetter /\ streaming = NotStreaming /\ freed = {}

(***************************************************************************)
(* gst_rerun_sink_init                                                      *)
(***************************************************************************)
gst_rerun_sink_init ==
    /\ rec_stream = nullptr
    /\ rerun_initialized = FALSE
    /\ recording_id = DEFAULT_RECORDING_ID
    /\ image_path = DEFAULT_IMAGE_PATH
    /\ video_path = DEFAULT_VIDEO_PATH
    /\ spawn_viewer = DEFAULT_SPAWN_VIEWER
    /\ output_file = DEFAULT_OUTPUT_FILE
    /\ grpc_address = DEFAULT_GRPC_ADDRESS
    /\ codec_sent = FALSE
    /\ streams = 0
    /\ live = {}
    /\ sink = <<>>
    /\ last = Call("init", FALSE, "void", <<>>)

(***************************************************************************)
(* gst_rerun_sink_set_property: g_free the old string, store a copy of the  *)
(* new value (g_value_dup_string(NULL) is NULL); spawn-viewer is a boolean. *)
(***************************************************************************)
PropertyNames == {"recording-id", "image-path", "video-path", "spawn-viewer",
                  "output-file", "grpc-address"}

\* gst_rerun_sink_set_property saving to a new output-file at once when the
\* session is Active
gst_rerun_sink_set_property_reopen(prop_id, value) ==
    /\ prop_id \in PropertyNames
    /\ recording_id' = IF prop_id = "recording-id" THEN value ELSE recording_id
    /\ image_path' = IF prop_id = "image-path" THEN value ELSE image_path
    /\ video_path' = IF prop_id = "video-path" THEN value ELSE video_path
    /\ spawn_viewer' = IF prop_id = "spawn-viewer" THEN value ELSE spawn_viewer
    /\ output_file' = IF prop_id = "output-file" THEN value ELSE output_file
    /\ grpc_address' = IF prop_id = "grpc-address" THEN value ELSE grpc_address
    /\ sink' = IF prop_id = "output-file" /\ value /= NULL /\ rerun_initialized
               THEN <<SinkOp("save", value, NULL, 0, EmptyImage)>>
               ELSE sink
    /\ last' = Call(prop_id, rerun_initialized, "void", <<>>)
    /\ UNCHANGED <<rec_stream, rerun_initialized, codec_sent, streams, live,
                   have_nvmm, threads>>

gst_rerun_sink_set_property(prop_id, value) ==
    /\ prop_id \in PropertyNames
    /\ recording_id' = IF prop_id = "recording-id" THEN value ELSE recording_id
    /\ image_path' = IF prop_id = "image-path" THEN value ELSE image_path
    /\ video_path' = IF prop_id = "video-path" THEN value ELSE video_path
    /\ spawn_viewer' = IF prop_id = "spawn-viewer" THEN value ELSE spawn_viewer
    /\ output_file' = IF prop_id = "output-file" THEN value ELSE output_file
    /\ grpc_address' = IF prop_id = "grpc-address" THEN value ELSE grpc_address
    /\ last' = Call(prop_id, rerun_initialized, "void", <<>>)
    /\ UNCHANGED <<rec_stream, rerun_initialized, codec_sent, streams, live,
                   sink, have_nvmm, threads>>

(***************************************************************************)
(* gst_rerun_sink_start.  open_ok is the result the RecordingStream gives   *)
(* to the open operation (save / connect_grpc / spawn) the call makes.      *)
(***************************************************************************)
\* new rerun::RecordingStream: an object that did not exist before
NewStream == streams + 1

has_output_file == output_file /= NULL
has_custom_grpc == grpc_address /= NULL /\ grpc_address /= DEFAULT_GRPC_ADDRESS
\* options_count counting the output file alone
options_count_file_only == IF has_output_file THEN 1 ELSE 0

options_count == (IF has_output_file THEN 1 ELSE 0)
                 + (IF has_custom_grpc THEN 1 ELSE 0)

OpenOp(op, target) == SinkOp(op, target, NULL, 0, EmptyImage)

\* OutputMode with the viewer tested before the gRPC address
OutputMode_spawn_first ==
    IF has_output_file THEN <<OpenOp("save", output_file)>>
    ELSE IF spawn_viewer THEN <<OpenOp("spawn", NULL)>>
    ELSE IF has_custom_grpc THEN <<OpenOp("connect_grpc", grpc_address)>>
    ELSE <<>>

\* the open operation start() selects, as the operation put in the log
OutputMode ==
    IF has_output_file THEN <<OpenOp("save", output_file)>>
    ELSE IF has_custom_grpc THEN <<OpenOp("connect_grpc", grpc_address)>>
    ELSE IF spawn_viewer THEN <<OpenOp("spawn", NULL)>>
    ELSE <<>>

StartConflict ==
    \* delete priv->rec_stream; priv->rec_stream = nullptr; return FALSE
    /\ rec_stream' = nullptr
    /\ live' = live
    /\ sink' = <<>>
    /\ last' = Call("start", FALSE, "FALSE", <<>>)
    /\ UNCHANGED <<rerun_initialized, codec_sent>>

StartOpenFailed ==
    /\ IF has_output_file \/ has_custom_grpc
       THEN \* save / connect_grpc failed: the stream is deleted
            /\ rec_stream' = nullptr
            /\ live' = live
            /\ sink' = <<>>
       ELSE \* spawn failed: return FALSE with the stream left in place
            /\ rec_stream' = NewStream
            /\ live' = live \cup {NewStream}
            /\ sink' = OutputMode
    /\ last' = Call("start", FALSE, "FALSE", OutputMode)
    /\ UNCHANGED <<rerun_initialized, codec_sent>>

\* StartInitialized with codec_sent set instead of cleared
StartInitialized_codec_set ==
    /\ rec_stream' = NewStream
    /\ live' = live \cup {NewStream}
    /\ sink' = OutputMode
    /\ codec_sent' = TRUE
    /\ rerun_initialized' = TRUE
    /\ last' = Call("start", FALSE, "TRUE", OutputMode)

StartInitialized ==
    /\ rec_stream' = NewStream
    /\ live' = live \cup {NewStream}
    /\ sink' = OutputMode
    /\ codec_sent' = FALSE
    /\ rerun_initialized' = TRUE
    /\ last' = Call("start", FALSE, "TRUE", OutputMode)

\* gst_rerun_sink_start clearing codec_sent also when already initialized
gst_rerun_sink_start_codec_reset(open_ok) ==
    /\ IF ~rerun_initialized
       THEN /\ streams < MaxHandles
            /\ streams' = NewStream
            /\ IF options_count > 1 THEN StartConflict
               ELSE IF OutputMode /= <<>> /\ ~open_ok THEN StartOpenFailed
               ELSE StartInitialized
       ELSE /\ last' = Call("start", TRUE, "TRUE", <<>>)
            /\ codec_sent' = FALSE
            /\ UNCHANGED <<rec_stream, rerun_initialized, streams, live,
                           sink>>
    /\ UNCHANGED <<recording_id, image_path, video_path, spawn_viewer,
                   output_file, grpc_address, have_nvmm, threads>>

gst_rerun_sink_start(open_ok) ==
    /\ IF ~rerun_initialized
       THEN /\ streams < MaxHandles
            /\ streams' = NewStream
            /\ IF options_count > 1 THEN StartConflict
               ELSE IF OutputMode /= <<>> /\ ~open_ok THEN StartOpenFailed
               ELSE StartInitialized
       ELSE /\ last' = Call("start", TRUE, "TRUE", <<>>)
            /\ UNCHANGED <<rec_stream, rerun_initialized, codec_sent,
                           streams, live, sink>>
    /\ UNCHANGED <<recording_id, image_path, video_path, spawn_viewer,
                   output_file, grpc_address, have_nvmm, threads>>

(***************************************************************************)
(* gst_rerun_sink_stop                                                      *)
(***************************************************************************)
\* gst_rerun_sink_stop leaving rerun_initialized set
gst_rerun_sink_stop_flag_kept ==
    /\ IF rec_stream /= nullptr
       THEN /\ live' = live \ {rec_stream}
            /\ rec_stream' = nullptr
            /\ codec_sent' = FALSE
            /\ sink' = <<>>
            /\ UNCHANGED rerun_initialized
       ELSE UNCHANGED <<rec_stream, rerun_initialized, codec_sent, live, sink>>
    /\ last' = Call("stop", rerun_initialized, "TRUE", <<>>)
    /\ UNCHANGED <<recording_id, image_path, video_path, spawn_viewer,
                   output_file, grpc_address, streams, have_nvmm, threads>>

\* gst_rerun_sink_stop leaving codec_sent set
gst_rerun_sink_stop_codec_kept ==
    /\ IF rec_stream /= nullptr
       THEN /\ live' = live \ {rec_stream}
            /\ rec_stream' = nullptr
            /\ rerun_initialized' = FALSE
            /\ sink' = <<>>
            /\ UNCHANGED codec_sent
       ELSE UNCHANGED <<rec_stream, rerun_initialized, codec_sent, live, sink>>
    /\ last' = Call("stop", rerun_initialized, "TRUE", <<>>)
    /\ UNCHANGED <<recording_id, image_path, video_path, spawn_viewer,
                   output_file, grpc_address, streams, have_nvmm, threads>>

gst_rerun_sink_stop ==
    /\ IF rec_stream /= nullptr
       THEN /\ live' = live \ {rec_stream}
            /\ rec_stream' = nullptr
            /\ rerun_initialized' = FALSE
            /\ codec_sent' = FALSE
            /\ sink' = <<>>
       ELSE UNCHANGED <<rec_stream, rerun_initialized, codec_sent, live, sink>>
    /\ last' = Call("stop", rerun_initialized, "TRUE", <<>>)
    /\ UNCHANGED <<recording_id, image_path, video_path, spawn_viewer,
                   output_file, grpc_address, streams, have_nvmm, threads>>

(***************************************************************************)
(* gst_rerun_sink_dispose: g_clear_pointer frees the string and stores      *)
(* NULL, for the four strings it names; the parent's dispose does not       *)
(* touch the private state.                                                 *)
(***************************************************************************)
gst_rerun_sink_dispose ==
    /\ recording_id' = NULL
    /\ image_path' = NULL
    /\ output_file' = NULL
    /\ grpc_address' = NULL
    /\ last' = Call("dispose", rerun_initialized, "void", <<>>)
    /\ UNCHANGED <<rec_stream, rerun_initialized, video_path, spawn_viewer,
                   codec_sent, streams, live, sink, have_nvmm, threads>>

(***************************************************************************)
(* is_encoded_format                                                        *)
(***************************************************************************)
is_encoded_format(caps) ==
    caps /= NoCaps /\ (caps.name = "video/x-h264" \/ caps.name = "video/x-h265")

(***************************************************************************)
(* process_encoded_video: the flow return, the stream operations in order,  *)
(* the value of codec_sent afterwards and the mapping operations.           *)
(***************************************************************************)
Extract(ret, ops, sent, image, maps) ==
    [ret |-> ret, ops |-> ops, codec_sent |-> sent, image |-> image,
     maps |-> maps]

VideoCodec(format_name) ==
    IF format_name = "video/x-h264" THEN "H264" ELSE "H265"

\* AnnounceCodec without the codec_sent guard
AnnounceCodec_unguarded(caps) ==
    <<SinkOp("log_static", video_path, VideoCodec(caps.name), 0, EmptyImage)>>

\* log_static of the codec, guarded by codec_sent
AnnounceCodec(caps) ==
    IF ~codec_sent
    THEN <<SinkOp("log_static", video_path, VideoCodec(caps.name), 0,
                  EmptyImage)>>
    ELSE <<>>

\* LogSample advancing the clock without logging the sample
LogSample_clock_only(buffer) ==
    << SinkOp("set_time_timestamp", "time", NULL, nanoseconds(buffer.dts),
              EmptyImage) >>

\* set_time_timestamp, then log of the sample borrowed from the mapped bytes
LogSample(buffer) ==
    << SinkOp("set_time_timestamp", "time", NULL, nanoseconds(buffer.dts),
              EmptyImage),
       SinkOp("log", video_path, NULL, 0,
              Image(buffer.data, 0, 0, "VideoSample")) >>

\* process_encoded_video validating the dimensions before it tests the path
process_encoded_video_validate_first(buffer, caps) ==
    LET width == gst_structure_get_int(caps.width, 0)
        height == gst_structure_get_int(caps.height, 0)
    IN  IF width = 0 \/ height = 0
        THEN Extract(GST_FLOW_ERROR, <<>>, codec_sent, EmptyImage, <<>>)
        ELSE IF ~rerun_initialized \/ rec_stream = nullptr \/ video_path = NULL
        THEN Extract(GST_FLOW_OK, <<>>, codec_sent, EmptyImage, <<>>)
        ELSE IF ~buffer.map_ok
        THEN Extract(GST_FLOW_ERROR, AnnounceCodec(caps), TRUE, EmptyImage,
                     <<"gst_buffer_map failed">>)
        ELSE Extract(GST_FLOW_OK, AnnounceCodec(caps) \o LogSample(buffer),
                     TRUE, EmptyImage,
                     <<"gst_buffer_map", "gst_buffer_unmap">>)

\* process_encoded_video reading the width before it tests the path
process_encoded_video_width_first(buffer, caps) ==
    LET width == gst_structure_get_int(caps.width, 0)
        height == gst_structure_get_int(caps.height, 0)
    IN  IF width = 0
        THEN Extract(GST_FLOW_ERROR, <<>>, codec_sent, EmptyImage, <<>>)
        ELSE IF ~rerun_initialized \/ rec_stream = nullptr \/ video_path = NULL
        THEN Extract(GST_FLOW_OK, <<>>, codec_sent, EmptyImage, <<>>)
        ELSE IF height = 0
        THEN Extract(GST_FLOW_ERROR, <<>>, codec_sent, EmptyImage, <<>>)
        ELSE IF ~buffer.map_ok
        THEN Extract(GST_FLOW_ERROR, AnnounceCodec(caps), TRUE, EmptyImage,
                     <<"gst_buffer_map failed">>)
        ELSE Extract(GST_FLOW_OK, AnnounceCodec(caps) \o LogSample(buffer),
                     TRUE, EmptyImage,
                     <<"gst_buffer_map", "gst_buffer_unmap">>)

\* process_encoded_video without the test of the height
process_encoded_video_height_unchecked(buffer, caps) ==
    LET width == gst_structure_get_int(caps.width, 0)
    IN  IF ~rerun_initialized \/ rec_stream = nullptr \/ video_path = NULL
        THEN Extract(GST_FLOW_OK, <<>>, codec_sent, EmptyImage, <<>>)
        ELSE IF width = 0
        THEN Extract(GST_FLOW_ERROR, <<>>, codec_sent, EmptyImage, <<>>)
        ELSE IF ~buffer.map_ok
        THEN Extract(GST_FLOW_ERROR, AnnounceCodec(caps), TRUE, EmptyImage,
                     <<"gst_buffer_map failed">>)
        ELSE Extract(GST_FLOW_OK, AnnounceCodec(caps) \o LogSample(buffer),
                     TRUE, EmptyImage,
                     <<"gst_buffer_map", "gst_buffer_unmap">>)

process_encoded_video(buffer, caps) ==
    LET width == gst_structure_get_int(caps.width, 0)
        height == gst_structure_get_int(caps.height, 0)
    IN  IF ~rerun_initialized \/ rec_stream = nullptr \/ video_path = NULL
        THEN Extract(GST_FLOW_OK, <<>>, codec_sent, EmptyImage, <<>>)
        ELSE IF width = 0
        THEN Extract(GST_FLOW_ERROR, <<>>, codec_sent, EmptyImage, <<>>)
        ELSE IF height = 0
        THEN Extract(GST_FLOW_ERROR, <<>>, codec_sent, EmptyImage, <<>>)
        ELSE IF ~buffer.map_ok
        THEN Extract(GST_FLOW_ERROR, AnnounceCodec(caps), TRUE, EmptyImage,
                     <<"gst_buffer_map failed">>)
        ELSE Extract(GST_FLOW_OK, AnnounceCodec(caps) \o LogSample(buffer),
                     TRUE, EmptyImage,
                     <<"gst_buffer_map", "gst_buffer_unmap">>)

(***************************************************************************)
(* create_image_from_format: the image built from the copied bytes; an      *)
(* empty image for a format outside the switch.                             *)
(***************************************************************************)
create_image_from_format(raw_data, format, width, height) ==
    CASE format = "RGB" -> Image(raw_data, width, height, "rgb24")
      [] format = "RGBA" -> Image(raw_data, width, height, "rgba32")
      [] format = "GRAY8" -> Image(raw_data, width, height, "grayscale8")
      [] format = "NV12" -> Image(raw_data, width, height, "NV12")
      [] format = "I420" ->
            Image(raw_data, width, height, "Y_U_V12_LimitedRange")
      [] OTHER -> EmptyImage

(***************************************************************************)
(* process_regular_buffer                                                   *)
(***************************************************************************)
\* vector stopping one byte short of end
vector_short(data, first, end) ==
    [i \in 1..(end - first - 1) |-> data[first + i]]

\* std::vector<std::uint8_t>(first, end): a copy of the bytes at the offsets
\* first .. end - 1 of data (offsets from 0)
vector(data, first, end) == [i \in 1..(end - first) |-> data[first + i]]

process_regular_buffer(buffer, info) ==
    IF ~buffer.map_ok
    THEN Extract(GST_FLOW_ERROR, <<>>, codec_sent, EmptyImage,
                 <<"gst_buffer_map failed">>)
    ELSE LET raw_data == vector(buffer.data, 0, Len(buffer.data))
             image == create_image_from_format(raw_data, info.format,
                                               info.width, info.height)
             maps == <<"gst_buffer_map", "gst_buffer_unmap">>
         IN  IF info.format \notin SupportedFormats
             THEN Extract(GST_FLOW_NOT_NEGOTIATED, <<>>, codec_sent, image,
                          maps)
             ELSE Extract(GST_FLOW_OK, <<>>, codec_sent, image, maps)

(***************************************************************************)
(* is_nvmm_memory and process_nvmm_buffer (HAVE_NVMM_SUPPORT)               *)
(***************************************************************************)
is_nvmm_memory(buffer) ==
    \/ buffer.allocator = "nvfiltermemoryallocator0"
    \/ buffer.allocator = "nvdsmemoryallocator0"

\* CopyPlane copying whole rows of pitch bytes, padding included
RECURSIVE CopyPlane_padded(_, _, _, _, _)
CopyPlane_padded(ptr, pitch, width, from, rows) ==
    IF from >= rows THEN <<>>
    ELSE vector(ptr, from * pitch, from * pitch + pitch)
         \o CopyPlane_padded(ptr, pitch, width, from + 1, rows)

\* rows [from, rows) of a plane, each row the width bytes at row * pitch
RECURSIVE CopyPlane(_, _, _, _, _)
CopyPlane(ptr, pitch, width, from, rows) ==
    IF from >= rows THEN <<>>
    ELSE vector(ptr, from * pitch, from * pitch + width)
         \o CopyPlane(ptr, pitch, width, from + 1, rows)

\* process_nvmm_buffer leaving the surface mapped when the sync fails
process_nvmm_buffer_sync_leak(buffer, info) ==
    LET surface == buffer.surface
        width == surface.width
        height == surface.height
        raw_data == CopyPlane(surface.addr[1], surface.pitch[1], width, 0,
                              height)
                    \o CopyPlane(surface.addr[2], surface.pitch[2], width, 0,
                                 height \div 2)
        Fail(maps) == Extract(GST_FLOW_ERROR, <<>>, codec_sent, EmptyImage,
                              maps)
    IN  IF ~buffer.map_ok THEN Fail(<<"gst_buffer_map failed">>)
        ELSE IF surface.null
        THEN Fail(<<"gst_buffer_map", "gst_buffer_unmap">>)
        ELSE IF ~surface.map_ok
        THEN Fail(<<"gst_buffer_map", "NvBufSurfaceMap failed",
                    "gst_buffer_unmap">>)
        ELSE IF ~surface.sync_ok
        THEN Fail(<<"gst_buffer_map", "NvBufSurfaceMap",
                    "NvBufSurfaceSyncForCpu failed", "gst_buffer_unmap">>)
        ELSE IF surface.addr_null[1] \/ surface.addr_null[2]
        THEN Fail(<<"gst_buffer_map", "NvBufSurfaceMap",
                    "NvBufSurfaceSyncForCpu", "NvBufSurfaceUnMap",
                    "gst_buffer_unmap">>)
        ELSE IF info.format = "NV12"
        THEN Extract(GST_FLOW_OK, <<>>, codec_sent,
                     Image(raw_data, width, height, "NV12"),
                     <<"gst_buffer_map", "NvBufSurfaceMap",
                       "NvBufSurfaceSyncForCpu", "copy", "NvBufSurfaceUnMap",
                       "gst_buffer_unmap">>)
        ELSE Extract(GST_FLOW_NOT_NEGOTIATED, <<>>, codec_sent, EmptyImage,
                     <<"gst_buffer_map", "NvBufSurfaceMap",
                       "NvBufSurfaceSyncForCpu", "copy", "NvBufSurfaceUnMap",
                       "gst_buffer_unmap">>)

\* process_nvmm_buffer testing the format before it maps the buffer
process_nvmm_buffer_format_first(buffer, info) ==
    LET surface == buffer.surface
        width == surface.width
        height == surface.height
        raw_data == CopyPlane(surface.addr[1], surface.pitch[1], width, 0,
                              height)
                    \o CopyPlane(surface.addr[2], surface.pitch[2], width, 0,
                                 height \div 2)
        Fail(maps) == Extract(GST_FLOW_ERROR, <<>>, codec_sent, EmptyImage,
                              maps)
    IN  IF info.format /= "NV12"
        THEN Extract(GST_FLOW_NOT_NEGOTIATED, <<>>, codec_sent, EmptyImage,
                     <<>>)
        ELSE IF ~buffer.map_ok THEN Fail(<<"gst_buffer_map failed">>)
        ELSE IF surface.null
        THEN Fail(<<"gst_buffer_map", "gst_buffer_unmap">>)
        ELSE IF ~surface.map_ok
        THEN Fail(<<"gst_buffer_map", "NvBufSurfaceMap failed",
                    "gst_buffer_unmap">>)
        ELSE IF ~surface.sync_ok
        THEN Fail(<<"gst_buffer_map", "NvBufSurfaceMap",
                    "NvBufSurfaceSyncForCpu failed", "NvBufSurfaceUnMap",
                    "gst_buffer_unmap">>)
        ELSE IF surface.addr_null[1] \/ surface.addr_null[2]
        THEN Fail(<<"gst_buffer_map", "NvBufSurfaceMap",
                    "NvBufSurfaceSyncForCpu", "NvBufSurfaceUnMap",
                    "gst_buffer_unmap">>)
        ELSE IF info.format = "NV12"
        THEN Extract(GST_FLOW_OK, <<>>, codec_sent,
                     Image(raw_data, width, height, "NV12"),
                     <<"gst_buffer_map", "NvBufSurfaceMap",
                       "NvBufSurfaceSyncForCpu", "copy", "NvBufSurfaceUnMap",
                       "gst_buffer_unmap">>)
        ELSE Extract(GST_FLOW_NOT_NEGOTIATED, <<>>, codec_sent, EmptyImage,
                     <<"gst_buffer_map", "NvBufSurfaceMap",
                       "NvBufSurfaceSyncForCpu", "copy", "NvBufSurfaceUnMap",
                       "gst_buffer_unmap">>)

process_nvmm_buffer(buffer, info) ==
    LET surface == buffer.surface
        width == surface.width
        height == surface.height
        raw_data == CopyPlane(surface.addr[1], surface.pitch[1], width, 0,
                              height)
                    \o CopyPlane(surface.addr[2], surface.pitch[2], width, 0,
                                 height \div 2)
        Fail(maps) == Extract(GST_FLOW_ERROR, <<>>, codec_sent, EmptyImage,
                              maps)
    IN  IF ~buffer.map_ok THEN Fail(<<"gst_buffer_map failed">>)
        ELSE IF surface.null
        THEN Fail(<<"gst_buffer_map", "gst_buffer_unmap">>)
        ELSE IF ~surface.map_ok
        THEN Fail(<<"gst_buffer_map", "NvBufSurfaceMap failed",
                    "gst_buffer_unmap">>)
        ELSE IF ~surface.sync_ok
        THEN Fail(<<"gst_buffer_map", "NvBufSurfaceMap",
                    "NvBufSurfaceSyncForCpu failed", "NvBufSurfaceUnMap",
                    "gst_buffer_unmap">>)
        ELSE IF surface.addr_null[1] \/ surface.addr_null[2]
        THEN Fail(<<"gst_buffer_map", "NvBufSurfaceMap",
                    "NvBufSurfaceSyncForCpu", "NvBufSurfaceUnMap",
                    "gst_buffer_unmap">>)
        ELSE IF info.format = "NV12"
        THEN Extract(GST_FLOW_OK, <<>>, codec_sent,
                     Image(raw_data, width, height, "NV12"),
                     <<"gst_buffer_map", "NvBufSurfaceMap",
                       "NvBufSurfaceSyncForCpu", "copy", "NvBufSurfaceUnMap",
                       "gst_buffer_unmap">>)
        ELSE Extract(GST_FLOW_NOT_NEGOTIATED, <<>>, codec_sent, EmptyImage,
                     <<"gst_buffer_map", "NvBufSurfaceMap",
                       "NvBufSurfaceSyncForCpu", "copy", "NvBufSurfaceUnMap",
                       "gst_buffer_unmap">>)

(***************************************************************************)
(* gst_rerun_sink_render                                                    *)
(***************************************************************************)
\* Route testing the memory of the buffer before the name of the caps
Route_nvmm_first(caps, buffer) ==
    IF caps = NoCaps THEN NULL
    ELSE IF have_nvmm /\ is_nvmm_memory(buffer) THEN "nvmm"
    ELSE IF is_encoded_format(caps) THEN "encoded"
    ELSE IF gst_video_info_from_caps(caps).format = NULL THEN NULL
    ELSE "host"

\* Route handing a buffer whose caps cannot be read to the host extractor
Route_unparsed_host(caps, buffer) ==
    IF caps = NoCaps THEN NULL
    ELSE IF is_encoded_format(caps) THEN "encoded"
    ELSE IF have_nvmm /\ is_nvmm_memory(buffer) THEN "nvmm"
    ELSE "host"

\* the extractor the buffer is handed to; NULL when render returns before
Route(caps, buffer) ==
    IF caps = NoCaps THEN NULL
    ELSE IF is_encoded_format(caps) THEN "encoded"
    ELSE IF gst_video_info_from_caps(caps).format = NULL THEN NULL
    ELSE IF have_nvmm /\ is_nvmm_memory(buffer) THEN "nvmm"
    ELSE "host"

\* LogImage testing the stream pointer but not rerun_initialized
LogImage_unguarded(image) ==
    IF rec_stream /= nullptr /\ image_path /= NULL
    THEN <<SinkOp("log", image_path, NULL, 0, image)>>
    ELSE <<>>

\* priv->rec_stream->log(priv->image_path, image), or the warning
LogImage(image) ==
    IF rerun_initialized /\ rec_stream /= nullptr /\ image_path /= NULL
    THEN <<SinkOp("log", image_path, NULL, 0, image)>>
    ELSE <<>>

\* Rendered treating a missing image-path as an error
Rendered_path_required(caps, buffer) ==
    LET info == gst_video_info_from_caps(caps)
        route == Route(caps, buffer)
        raw == IF route = "nvmm" THEN process_nvmm_buffer(buffer, info)
               ELSE process_regular_buffer(buffer, info)
    IN  IF route = NULL
        THEN Extract(GST_FLOW_ERROR, <<>>, codec_sent, EmptyImage, <<>>)
        ELSE IF route = "encoded" THEN process_encoded_video(buffer, caps)
        ELSE IF raw.ret /= GST_FLOW_OK THEN raw
        ELSE IF image_path = NULL
        THEN Extract(GST_FLOW_ERROR, <<>>, codec_sent, raw.image, raw.maps)
        ELSE Extract(GST_FLOW_OK, LogImage(raw.image), codec_sent, raw.image,
                     raw.maps)

\* Rendered forwarding the image whatever the extractor returned
Rendered_forward_on_error(caps, buffer) ==
    LET info == gst_video_info_from_caps(caps)
        route == Route(caps, buffer)
        raw == IF route = "nvmm" THEN process_nvmm_buffer(buffer, info)
               ELSE process_regular_buffer(buffer, info)
    IN  IF route = NULL
        THEN Extract(GST_FLOW_ERROR, <<>>, codec_sent, EmptyImage, <<>>)
        ELSE IF route = "encoded" THEN process_encoded_video(buffer, caps)
        ELSE Extract(raw.ret, LogImage(raw.image), codec_sent, raw.image,
                     raw.maps)

Rendered(caps, buffer) ==
    LET info == gst_video_info_from_caps(caps)
        route == Route(caps, buffer)
        raw == IF route = "nvmm" THEN process_nvmm_buffer(buffer, info)
               ELSE process_regular_buffer(buffer, info)
    IN  IF route = NULL
        THEN Extract(GST_FLOW_ERROR, <<>>, codec_sent, EmptyImage, <<>>)
        ELSE IF route = "encoded" THEN process_encoded_video(buffer, caps)
        ELSE IF raw.ret /= GST_FLOW_OK THEN raw
        ELSE Extract(GST_FLOW_OK, LogImage(raw.image), codec_sent, raw.image,
                     raw.maps)

\* gst_rerun_sink_render closing the session when the buffer fails
gst_rerun_sink_render_teardown(caps, buffer) ==
    \E r \in {Rendered(caps, buffer)} :
        /\ Len(sink) + Len(r.ops) <= MaxLog
        /\ sink' = sink \o r.ops
        /\ codec_sent' = r.codec_sent
        /\ rerun_initialized' = (rerun_initialized /\ r.ret = GST_FLOW_OK)
        /\ last' = [op |-> "render", active |-> rerun_initialized,
                    ret |-> r.ret, ops |-> r.ops, caps |-> caps,
                    buffer |-> buffer, route |-> Route(caps, buffer),
                    image |-> r.image, maps |-> r.maps]
        /\ UNCHANGED <<rec_stream, recording_id, image_path, video_path,
                       spawn_viewer, output_file, grpc_address, streams, live,
                       have_nvmm, threads>>

gst_rerun_sink_render(caps, buffer) ==
    \E r \in {Rendered(caps, buffer)} :
        /\ Len(sink) + Len(r.ops) <= MaxLog
        /\ sink' = sink \o r.ops
        /\ codec_sent' = r.codec_sent
        /\ last' = [op |-> "render", active |-> rerun_initialized,
                    ret |-> r.ret, ops |-> r.ops, caps |-> caps,
                    buffer |-> buffer, route |-> Route(caps, buffer),
                    image |-> r.image, maps |-> r.maps]
        /\ UNCHANGED <<rec_stream, rerun_initialized, recording_id,
                       image_path, video_path, spawn_viewer, output_file,
                       grpc_address, streams, live, have_nvmm, threads>>

(***************************************************************************)
(* The element in a pipeline: any property may be set at any time, start    *)
(* and stop are called by the state changes, render by the streaming        *)
(* thread, one call at a time.                                              *)
(***************************************************************************)
PropertyValues(prop_id) ==
    CASE prop_id = "recording-id" -> {NULL, "cam"}
      [] prop_id = "image-path" -> {NULL, "camera/image"}
      [] prop_id = "video-path" -> {NULL, "camera/video"}
      [] prop_id = "spawn-viewer" -> BOOLEAN
      [] prop_id = "output-file" -> {NULL, "out.rrd"}
      [] prop_id = "grpc-address" -> {NULL, DEFAULT_GRPC_ADDRESS,
                                      "10.0.0.2:9876"}

\* a host buffer of n bytes, the i-th byte being tag + i
HostBuffer(map_ok, tag, n, dts) ==
    Buffer("sysmem", map_ok, [i \in 1..n |-> tag + i], dts, NoSurface)

SetProperties(names) ==
    \E prop_id \in names : \E value \in PropertyValues(prop_id) :
        gst_rerun_sink_set_property(prop_id, value)

(***************************************************************************)
(* Spec: the session.  Every property, start with either result of the      *)
(* open operation, stop, and render of an encoded and of a raw buffer, in   *)
(* the default build (WITH_NVMM_SUPPORT is OFF).                            *)
(***************************************************************************)
SessionCaps == {Caps("video/x-h264", NULL, <<MaxDim>>, <<MaxDim>>),
                Caps("video/x-raw", "GRAY8", <<1>>, <<MaxDim>>)}
SessionBuffers == {HostBuffer(TRUE, 0, MaxDim, 1)}

Init == gst_rerun_sink_init /\ have_nvmm = FALSE /\ Quiescent

Next ==
    \/ SetProperties(PropertyNames)
    \/ \E open_ok \in BOOLEAN : gst_rerun_sink_start(open_ok)
    \/ gst_rerun_sink_stop
    \/ \E caps \in SessionCaps, buffer \in SessionBuffers :
          gst_rerun_sink_render(caps, buffer)

Spec == Init /\ [][Next]_vars

(***************************************************************************)
(* SpecEncoded: the encoded route.  H.264 and H.265 caps whose width and    *)
(* height are present, absent or zero, buffers whose mapping succeeds or    *)
(* fails, with image-path and video-path set and cleared at any time.       *)
(***************************************************************************)
Fields == {<<>>, <<0>>, <<MaxDim>>}
EncodedCaps == {Caps(name, NULL, width, height) :
                    name \in {"video/x-h264", "video/x-h265"},
                    width \in Fields, height \in Fields}
EncodedBuffers == {HostBuffer(ok, 0, 1, 1) : ok \in BOOLEAN}

NextEncoded ==
    \/ SetProperties({"image-path", "video-path"})
    \/ \E open_ok \in BOOLEAN : gst_rerun_sink_start(open_ok)
    \/ gst_rerun_sink_stop
    \/ \E caps \in EncodedCaps, buffer \in EncodedBuffers :
          gst_rerun_sink_render(caps, buffer)

SpecEncoded == Init /\ [][NextEncoded]_vars

(***************************************************************************)
(* SpecHost: the host route in a session.  Raw caps of a supported and of   *)
(* an unsupported format, buffers of two contents whose mapping succeeds    *)
(* or fails.                                                                *)
(***************************************************************************)
HostCaps == {Caps("video/x-raw", format, <<1>>, <<MaxDim>>) :
                 format \in {"GRAY8", "YUY2"}}
HostBuffers == {HostBuffer(ok, tag, MaxDim, 1) :
                    ok \in BOOLEAN, tag \in {0, 100}}

NextHost ==
    \/ SetProperties({"image-path"})
    \/ \E open_ok \in BOOLEAN : gst_rerun_sink_start(open_ok)
    \/ gst_rerun_sink_stop
    \/ \E caps \in HostCaps, buffer \in HostBuffers :
          gst_rerun_sink_render(caps, buffer)

SpecHost == Init /\ [][NextHost]_vars

(***************************************************************************)
(* SpecFormats: the host extraction of one frame per session, for every     *)
(* format, every size up to MaxDim x MaxDim and mapped buffers of the size  *)
(* the caps imply or up to MaxExtra bytes more (row padding).               *)
(***************************************************************************)
\* bytes of a tightly packed frame, by GStreamer's layout of the format
PackedSize(format, width, height) ==
    CASE format = "RGB" -> width * height * 3
      [] format = "RGBA" -> width * height * 4
      [] format = "GRAY8" -> width * height
      [] format \in {"NV12", "I420"} -> (width * height * 3) \div 2
      [] OTHER -> width * height * 2

FormatInputs ==
    {<<Caps("video/x-raw", format, <<width>>, <<height>>),
       HostBuffer(TRUE, 0, PackedSize(format, width, height) + extra, 1)>> :
        format \in GstVideoFormats, width \in 1..MaxDim,
        height \in 1..MaxDim, extra \in 0..MaxExtra}

NextFormats ==
    \/ SetProperties({"image-path"})
    \/ \E open_ok \in BOOLEAN : gst_rerun_sink_start(open_ok)
    \/ gst_rerun_sink_stop
    \/ \E input \in FormatInputs :
          /\ Len(sink) <= 1
          /\ gst_rerun_sink_render(input[1], input[2])

SpecFormats == Init /\ [][NextFormats]_vars

(***************************************************************************)
(* SpecNvmm: the device route, in a build with HAVE_NVMM_SUPPORT, one frame *)
(* per session.  A surface holds the pixels Luma(r, c) and Chroma(r, c) in  *)
(* two planes whose rows are pitch bytes apart, the bytes between the width *)
(* and the pitch being padding.                                             *)
(***************************************************************************)
Luma(width, r, c) == 1 + r * width + c
Chroma(width, r, c) == 101 + r * width + c
Padding == 255

\* plane 0 (luma) or 1 (chroma) of rows rows of pitch bytes, the pixel
\* (r, c) at offset r * pitch + c
Plane(plane, width, rows, pitch) ==
    [i \in 1..(rows * pitch) |->
        IF (i - 1) % pitch >= width THEN Padding
        ELSE IF plane = 0
        THEN Luma(width, (i - 1) \div pitch, (i - 1) % pitch)
        ELSE Chroma(width, (i - 1) \div pitch, (i - 1) % pitch)]

NvBufSurface(width, height, y_pad, uv_pad) ==
    [width |-> width, height |-> height,
     pitch |-> <<width + y_pad, width + uv_pad>>,
     addr |-> << Plane(0, width, height, width + y_pad),
                 Plane(1, width, (height + 1) \div 2, width + uv_pad) >>,
     addr_null |-> <<FALSE, FALSE>>,
     map_ok |-> TRUE, sync_ok |-> TRUE, null |-> FALSE]

Surfaces == {NvBufSurface(width, height, y_pad, uv_pad) :
                 width \in 1..MaxDim, height \in 1..MaxRows,
                 y_pad \in 0..MaxExtra, uv_pad \in 0..MaxExtra}

\* the ways the mapping of one surface fails
FailingSurfaces ==
    LET s == NvBufSurface(1, 2, 0, 0)
    IN  {NoSurface,
         [s EXCEPT !.map_ok = FALSE],
         [s EXCEPT !.sync_ok = FALSE],
         [s EXCEPT !.addr_null = <<TRUE, FALSE>>],
         [s EXCEPT !.addr_null = <<FALSE, TRUE>>]}

DeviceBuffer(allocator, map_ok, surface) ==
    Buffer(allocator, map_ok, <<>>, 1, surface)

\* the caps of a device buffer carry the size of its surface
DeviceCaps(format, surface) ==
    Caps("video/x-raw", format, <<surface.width>>, <<surface.height>>)

\* every surface as NV12; one surface under the other allocator, under a
\* host allocator and as RGBA; every failure of the mapping
NvmmInputs ==
    LET s == NvBufSurface(1, 2, 0, 0)
    IN  {<<DeviceCaps("NV12", surface),
           DeviceBuffer("nvdsmemoryallocator0", TRUE, surface)>> :
            surface \in Surfaces \cup FailingSurfaces}
        \cup {<<DeviceCaps("NV12", s),
                DeviceBuffer("nvfiltermemoryallocator0", TRUE, s)>>,
              <<DeviceCaps("RGBA", s),
                DeviceBuffer("nvdsmemoryallocator0", TRUE, s)>>,
              <<DeviceCaps("NV12", s),
                DeviceBuffer("nvdsmemoryallocator0", FALSE, NoSurface)>>}

InitNvmm == gst_rerun_sink_init /\ have_nvmm = TRUE /\ Quiescent

NextNvmm ==
    \/ SetProperties({"image-path"})
    \/ \E open_ok \in BOOLEAN : gst_rerun_sink_start(open_ok)
    \/ gst_rerun_sink_stop
    \/ \E input \in NvmmInputs :
          /\ Len(sink) <= 1
          /\ gst_rerun_sink_render(input[1], input[2])

SpecNvmm == InitNvmm /\ [][NextNvmm]_vars

(***************************************************************************)
(* SpecClock: the clock of the encoded route.  Buffers of one H.264 stream  *)
(* with every decode timestamp from 0 to GST_CLOCK_TIME_NONE, in any order. *)
(***************************************************************************)
ClockCaps == Caps("video/x-h264", NULL, <<MaxDim>>, <<MaxDim>>)
ClockBuffers == {HostBuffer(TRUE, 0, 1, dts) : dts \in 0..GST_CLOCK_TIME_NONE}

NextClock ==
    \/ SetProperties({"video-path"})
    \/ \E open_ok \in BOOLEAN : gst_rerun_sink_start(open_ok)
    \/ gst_rerun_sink_stop
    \/ \E buffer \in ClockBuffers : gst_rerun_sink_render(ClockCaps, buffer)

SpecClock == Init /\ [][NextClock]_vars

(***************************************************************************)
(* SpecRoutes: the routing of render, one frame per session, in a build     *)
(* with and in a build without HAVE_NVMM_SUPPORT.  Encoded and raw caps,    *)
(* encoded caps without a width, raw caps that do not parse and no caps at  *)
(* all, each with host and device buffers whose mappings succeed or fail.   *)
(***************************************************************************)
RouteCaps ==
    {Caps(name, NULL, <<1>>, <<2>>) : name \in {"video/x-h264", "video/x-h265"}}
    \cup {Caps("video/x-h264", NULL, <<>>, <<2>>)}
    \cup {Caps("video/x-raw", format, <<1>>, <<2>>) :
             format \in {"RGB", "NV12", "YUY2", NULL}}
    \cup {NoCaps}

RouteBuffers ==
    {HostBuffer(ok, 0, 3, 1) : ok \in BOOLEAN}
    \cup {DeviceBuffer(allocator, TRUE, surface) :
             allocator \in {"nvfiltermemoryallocator0", "nvdsmemoryallocator0"},
             surface \in {NvBufSurface(1, 2, 0, 0)}}
    \cup {DeviceBuffer("nvdsmemoryallocator0", TRUE, surface) :
             surface \in FailingSurfaces}
    \cup {DeviceBuffer("nvdsmemoryallocator0", FALSE, NoSurface)}

InitRoutes == gst_rerun_sink_init /\ have_nvmm \in BOOLEAN /\ Quiescent

NextRoutes ==
    \/ SetProperties({"image-path", "video-path"})
    \/ \E open_ok \in BOOLEAN : gst_rerun_sink_start(open_ok)
    \/ gst_rerun_sink_stop
    \/ \E caps \in RouteCaps, buffer \in RouteBuffers :
          /\ Len(sink) <= 1
          /\ gst_rerun_sink_render(caps, buffer)

SpecRoutes == InitRoutes /\ [][NextRoutes]_vars

(***************************************************************************)
(* SpecDispose: the life of the element up to its disposal.  The string     *)
(* properties are set and cleared, the session is started, stopped and fed, *)
(* and the element is disposed of at any point; nothing is called after     *)
(* the disposal.                                                            *)
(***************************************************************************)
Disposed == last.op = "dispose"

NextDispose ==
    \/ ~Disposed /\ SetProperties({"recording-id", "image-path", "video-path",
                                    "output-file"})
    \/ ~Disposed /\ \E open_ok \in BOOLEAN : gst_rerun_sink_start(open_ok)
    \/ ~Disposed /\ gst_rerun_sink_stop
    \/ ~Disposed /\ \E caps \in SessionCaps, buffer \in SessionBuffers :
                        gst_rerun_sink_render(caps, buffer)
    \/ ~Disposed /\ gst_rerun_sink_dispose

SpecDispose == Init /\ [][NextDispose]_vars

(***************************************************************************)
(* SpecRace: the two contexts step by step.  set_property takes no lock:    *)
(* the control context frees the old string of image-path or video-path in  *)
(* one step and stores the copy of the new value in the next, while the     *)
(* streaming context tests the path and hands it to the stream in steps of  *)
(* its own.  start and stop run when neither context is inside a call.      *)
(***************************************************************************)
PathProperties == {"image-path", "video-path"}

\* priv->image_path or priv->video_path: the pointer the field holds
Field(prop_id) == IF prop_id = "image-path" THEN image_path ELSE video_path

\* the characters a callee reads through the pointer of the field: those of
\* the string, or, once the string was freed, either the old characters or
\* whatever the allocator has put in their place
FreedMemory == "freed memory"
PathRead(prop_id) ==
    IF prop_id \in freed THEN {Field(prop_id), FreedMemory}
    ELSE {Field(prop_id)}

\* g_free(priv->image_path) / g_free(priv->video_path): the field keeps the
\* pointer, the string is gone
set_property_g_free(prop_id, value) ==
    /\ control = NoSetter
    /\ prop_id \in PathProperties
    /\ control' = [prop_id |-> prop_id, value |-> value]
    /\ freed' = IF Field(prop_id) /= NULL THEN freed \cup {prop_id} ELSE freed
    /\ UNCHANGED <<priv, streams, live, sink, have_nvmm, last, streaming>>

\* priv->image_path = g_value_dup_string(value), and the same for video_path
set_property_store ==
    /\ control /= NoSetter
    /\ image_path' = IF control.prop_id = "image-path" THEN control.value
                     ELSE image_path
    /\ video_path' = IF control.prop_id = "video-path" THEN control.value
                     ELSE video_path
    /\ freed' = freed \ {control.prop_id}
    /\ control' = NoSetter
    /\ last' = Call(control.prop_id, rerun_initialized, "void", <<>>)
    /\ UNCHANGED <<rec_stream, rerun_initialized, recording_id, spawn_viewer,
                   output_file, grpc_address, codec_sent, streams, live, sink,
                   have_nvmm, streaming>>

\* the return of render: the record of the call, the streaming context idle
render_return(caps, buffer, ret, ops, image, maps) ==
    /\ streaming' = NotStreaming
    /\ last' = [op |-> "render", active |-> rerun_initialized, ret |-> ret,
                ops |-> ops, caps |-> caps, buffer |-> buffer,
                route |-> Route(caps, buffer), image |-> image, maps |-> maps]

\* render up to the test of the path: the caps, the route, the extraction of
\* a raw image, the validation of an encoded stream
render_enter(caps, buffer) ==
    LET route == Route(caps, buffer)
        raw == process_regular_buffer(buffer, gst_video_info_from_caps(caps))
        at(pc) == [pc |-> pc, caps |-> caps, buffer |-> buffer, ops |-> <<>>]
    IN  /\ streaming = NotStreaming
        /\ Len(sink) + 3 <= MaxLog
        /\ route \in {NULL, "encoded", "host"}
        /\ CASE route = NULL ->
                  render_return(caps, buffer, GST_FLOW_ERROR, <<>>,
                                EmptyImage, <<>>)
             [] route = "encoded" ->
                  IF \/ ~rerun_initialized
                     \/ rec_stream = nullptr
                     \/ video_path = NULL
                  THEN render_return(caps, buffer, GST_FLOW_OK, <<>>,
                                     EmptyImage, <<>>)
                  ELSE IF \/ gst_structure_get_int(caps.width, 0) = 0
                          \/ gst_structure_get_int(caps.height, 0) = 0
                  THEN render_return(caps, buffer, GST_FLOW_ERROR, <<>>,
                                     EmptyImage, <<>>)
                  ELSE streaming' = at("log_static") /\ UNCHANGED last
             [] route = "host" ->
                  IF raw.ret /= GST_FLOW_OK
                  THEN render_return(caps, buffer, raw.ret, <<>>, raw.image,
                                     raw.maps)
                  ELSE IF /\ rerun_initialized
                          /\ rec_stream /= nullptr
                          /\ image_path /= NULL
                  THEN streaming' = at("log_image") /\ UNCHANGED last
                  ELSE render_return(caps, buffer, GST_FLOW_OK, <<>>,
                                     raw.image, raw.maps)
        /\ UNCHANGED <<priv, streams, live, sink, have_nvmm, control, freed>>

\* priv->rec_stream->log(priv->image_path, image)
render_log_image ==
    LET raw == process_regular_buffer(streaming.buffer,
                   gst_video_info_from_caps(streaming.caps))
    IN  /\ streaming.pc = "log_image"
        /\ \E path \in PathRead("image-path") :
              \E op \in {SinkOp("log", path, NULL, 0, raw.image)} :
                 /\ sink' = Append(sink, op)
                 /\ render_return(streaming.caps, streaming.buffer,
                                  GST_FLOW_OK, <<op>>, raw.image, raw.maps)
        /\ UNCHANGED <<priv, streams, live, have_nvmm, control, freed>>

\* if (!priv->codec_sent) { log_static(priv->video_path, codec);
\*                          priv->codec_sent = true; }
render_log_static ==
    /\ streaming.pc = "log_static"
    /\ IF codec_sent
       THEN /\ streaming' = [streaming EXCEPT !.pc = "log_sample"]
            /\ UNCHANGED <<sink, codec_sent>>
       ELSE \E path \in PathRead("video-path") :
              \E op \in {SinkOp("log_static", path,
                                VideoCodec(streaming.caps.name), 0,
                                EmptyImage)} :
                 /\ sink' = Append(sink, op)
                 /\ codec_sent' = TRUE
                 /\ streaming' = [streaming EXCEPT !.pc = "log_sample",
                                                   !.ops = <<op>>]
    /\ UNCHANGED <<rec_stream, rerun_initialized, recording_id, image_path,
                   video_path, spawn_viewer, output_file, grpc_address,
                   streams, live, have_nvmm, last, control, freed>>

\* gst_buffer_map, set_time_timestamp, log(priv->video_path, sample),
\* gst_buffer_unmap
render_log_sample ==
    /\ streaming.pc = "log_sample"
    /\ IF ~streaming.buffer.map_ok
       THEN /\ render_return(streaming.caps, streaming.buffer, GST_FLOW_ERROR,
                             streaming.ops, EmptyImage,
                             <<"gst_buffer_map failed">>)
            /\ UNCHANGED sink
       ELSE \E path \in PathRead("video-path") :
              \E ops \in {<< SinkOp("set_time_timestamp", "time", NULL,
                                    nanoseconds(streaming.buffer.dts),
                                    EmptyImage),
                             SinkOp("log", path, NULL, 0,
                                    Image(streaming.buffer.data, 0, 0,
                                          "VideoSample")) >>} :
                 /\ sink' = sink \o ops
                 /\ render_return(streaming.caps, streaming.buffer,
                                  GST_FLOW_OK, streaming.ops \o ops,
                                  EmptyImage,
                                  <<"gst_buffer_map", "gst_buffer_unmap">>)
    /\ UNCHANGED <<priv, streams, live, have_nvmm, control, freed>>

RaceBuffers == {HostBuffer(TRUE, 0, MaxDim, 1), HostBuffer(FALSE, 0, MaxDim, 1)}

\* neither context is inside a call
BetweenCalls == control = NoSetter /\ streaming = NotStreaming

NextRace ==
    \/ \E prop_id \in PathProperties : \E value \in PropertyValues(prop_id) :
          set_property_g_free(prop_id, value)
    \/ set_property_store
    \/ BetweenCalls /\ \E open_ok \in BOOLEAN : gst_rerun_sink_start(open_ok)
    \/ BetweenCalls /\ gst_rerun_sink_stop
    \/ \E caps \in SessionCaps, buffer \in RaceBuffers :
          render_enter(caps, buffer)
    \/ render_log_image
    \/ render_log_static
    \/ render_log_sample

SpecRace == Init /\ [][NextRace]_vars

(***************************************************************************)
(* Properties.                                                              *)
(***************************************************************************)
\* the last call was a start() made while the session was not Active
StartedInactive == last.op = "start" /\ ~last.active

\* start() failed, the session is not Active, no stream is left and no open
\* operation was invoked
StartRefused ==
    /\ last.ret = "FALSE"
    /\ ~rerun_initialized
    /\ rec_stream = nullptr
    /\ last.ops = <<>>

\* C1 as stated: if output-file is set and grpc-address differs from the
\* default address, start() returns FALSE, the session does not become
\* Active, rec_stream is NULL afterwards and none of save / connect_grpc /
\* spawn is invoked, whatever spawn-viewer is.
C1_ConflictAnyAddress ==
    (StartedInactive /\ output_file /= NULL
        /\ grpc_address /= DEFAULT_GRPC_ADDRESS)
    => StartRefused

\* C1 as amended: the same, for a grpc-address that is set (non-NULL) and
\* differs from the default address.
C1_ConflictRefused ==
    (StartedInactive /\ output_file /= NULL /\ grpc_address /= NULL
        /\ grpc_address /= DEFAULT_GRPC_ADDRESS)
    => StartRefused

C1_Witness ==
    /\ StartedInactive
    /\ output_file /= NULL
    /\ grpc_address \notin {NULL, DEFAULT_GRPC_ADDRESS}
    /\ ~spawn_viewer
    /\ StartRefused

\* the open operation the precedence rule gives: Disk, else Network, else
\* SpawnViewer, else none
Selected ==
    IF output_file /= NULL THEN <<"save", output_file>>
    ELSE IF grpc_address /= NULL /\ grpc_address /= DEFAULT_GRPC_ADDRESS
         THEN <<"connect_grpc", grpc_address>>
    ELSE IF spawn_viewer THEN <<"spawn", NULL>>
    ELSE <<"none", NULL>>

\* C2: for every configuration without the Disk/Network conflict, a start()
\* from a non-Active state invokes exactly the open operation of the
\* precedence rule (save if output-file is set, else connect_grpc if
\* grpc-address is non-NULL and not the default, else spawn if spawn-viewer,
\* else none and start succeeds) and no other.
C2_OutputSelection ==
    (StartedInactive
        /\ ~(output_file /= NULL /\ grpc_address /= NULL
                /\ grpc_address /= DEFAULT_GRPC_ADDRESS))
    => IF Selected[1] = "none"
       THEN last.ops = <<>> /\ last.ret = "TRUE"
       ELSE /\ Len(last.ops) = 1
            /\ last.ops[1].op = Selected[1]
            /\ last.ops[1].path = Selected[2]

C2_Witness ==
    /\ StartedInactive
    /\ output_file = NULL
    /\ grpc_address \notin {NULL, DEFAULT_GRPC_ADDRESS}
    /\ spawn_viewer
    /\ Len(last.ops) = 1
    /\ last.ops[1].op = "connect_grpc"

\* positions of the codec announcements and of the samples in a log
Announcements(log) == {i \in 1..Len(log) : log[i].op = "log_static"}
Samples(log) ==
    {i \in 1..Len(log) :
        log[i].op = "log" /\ log[i].image.format = "VideoSample"}
Images(log) ==
    {i \in 1..Len(log) :
        log[i].op = "log" /\ log[i].image.format /= "VideoSample"}

\* width and height are present in the caps and are not zero
ValidDimensions(caps) ==
    /\ caps.width /= <<>> /\ caps.width[1] /= 0
    /\ caps.height /= <<>> /\ caps.height[1] /= 0

\* call c is a render of an encoded buffer with valid dimensions, made on
\* an Active session; video-path is not changed by render
EncodedCall(c) ==
    /\ c.op = "render"
    /\ c.route = "encoded"
    /\ c.active
    /\ ValidDimensions(c.caps)

\* C3: within one session the codec descriptor is announced at most once,
\* exactly once as soon as one encoded buffer with valid dimensions has been
\* rendered with video-path configured, and the announcement precedes
\* every sample of the session.
C3_AnnouncedOnce ==
    /\ Cardinality(Announcements(sink)) <= 1
    /\ \A i \in Samples(sink) : \E j \in Announcements(sink) : j < i
    /\ (EncodedCall(last) /\ video_path /= NULL)
       => Cardinality(Announcements(sink)) = 1

C3_Witness ==
    /\ EncodedCall(last)
    /\ Cardinality(Samples(sink)) >= 2
    /\ Cardinality(Announcements(sink)) = 1

\* C4 as stated: every encoded-route call on an Active session with
\* video-path configured and valid dimensions emits zero or one codec
\* descriptor followed by exactly one sample, also when the mapping fails.
C4_OneSamplePerCall ==
    (EncodedCall(last) /\ video_path /= NULL)
    => /\ Cardinality(Announcements(last.ops)) <= 1
       /\ Cardinality(Samples(last.ops)) = 1
       /\ \A i \in Announcements(last.ops) : \A j \in Samples(last.ops) : i < j

\* C4 as amended: such a call emits zero or one codec descriptor followed by
\* exactly one sample when the buffer mapping succeeds, and no sample and
\* the error result when it fails; so the samples of a session grow by one
\* with every such buffer that could be mapped and by none otherwise.
C4_OneSamplePerMappedBuffer ==
    [][ (EncodedCall(last') /\ video_path' /= NULL)
        => /\ Cardinality(Announcements(last'.ops)) <= 1
           /\ \A i \in Announcements(last'.ops) :
                 \A j \in Samples(last'.ops) : i < j
           /\ sink' = sink \o last'.ops
           /\ IF last'.buffer.map_ok
              THEN /\ Cardinality(Samples(last'.ops)) = 1
                   /\ Cardinality(Samples(sink'))
                        = Cardinality(Samples(sink)) + 1
                   /\ last'.ret = GST_FLOW_OK
              ELSE /\ Samples(last'.ops) = {}
                   /\ Cardinality(Samples(sink')) = Cardinality(Samples(sink))
                   /\ last'.ret = GST_FLOW_ERROR ]_vars

C4_Witness ==
    /\ EncodedCall(last)
    /\ video_path /= NULL
    /\ ~last.buffer.map_ok
    /\ Cardinality(Samples(sink)) = 1
    /\ last.ret = GST_FLOW_ERROR

\* C5: every transition to Active leaves codec_sent false, the flag is set
\* only once the current session's stream has received the announcement,
\* and the first encoded buffer of a session announces the codec before
\* anything else, so each session has its own announcement.
C5_AnnouncedPerSession ==
    [][ /\ (~rerun_initialized /\ rerun_initialized') => ~codec_sent'
        /\ codec_sent' => Announcements(sink') /= {}
        /\ (EncodedCall(last') /\ video_path' /= NULL
               /\ Announcements(sink) = {})
           => /\ last'.ops /= <<>>
              /\ last'.ops[1].op = "log_static"
              /\ Announcements(sink') /= {} ]_vars

\* a later stream of the element, Active, with its own announcement and a
\* sample after it
C5_Witness ==
    /\ rerun_initialized
    /\ rec_stream > 1
    /\ EncodedCall(last)
    /\ Announcements(last.ops) /= {}
    /\ Samples(sink) /= {}

\* call c is a render of a raw buffer taken on the host route
HostCall(c) == c.op = "render" /\ c.route = "host"

\* the write to entity path of the image made of the bytes of buffer b
\* under caps c
ImageWrite(path, c, b) ==
    SinkOp("log", path, NULL, 0,
           create_image_from_format(b.data, c.format, c.width[1],
                                    c.height[1]))

\* C6 as stated: on the host route, with an Active session and image-path
\* configured, every buffer of a supported format adds exactly one image
\* write to the sink, carrying a copy of the buffer's bytes, after the
\* writes of the buffers before it.
C6_EveryBufferWritten ==
    [][ (HostCall(last') /\ last'.active /\ image_path' /= NULL
            /\ last'.caps.format \in SupportedFormats)
        => sink' = Append(sink, ImageWrite(image_path', last'.caps,
                                           last'.buffer)) ]_vars

\* C6 as amended: every such buffer whose mapping succeeds adds exactly one
\* image write, carrying a copy of its bytes, after the writes of the
\* buffers before it; a buffer whose mapping fails adds none and render
\* returns the error result.
C6_EveryMappedBufferWritten ==
    [][ (HostCall(last') /\ last'.active /\ image_path' /= NULL
            /\ last'.caps.format \in SupportedFormats)
        => IF last'.buffer.map_ok
           THEN /\ sink' = Append(sink, ImageWrite(image_path', last'.caps,
                                                   last'.buffer))
                /\ last'.ret = GST_FLOW_OK
           ELSE /\ sink' = sink
                /\ last'.ret = GST_FLOW_ERROR ]_vars

\* two image writes of one session, with different bytes, the later buffer
\* last
C6_Witness ==
    /\ HostCall(last)
    /\ last.active
    /\ Cardinality(Images(sink)) >= 2
    /\ \E i \in Images(sink) :
          /\ i < Len(sink)
          /\ sink[i].image.bytes /= sink[Len(sink)].image.bytes
    /\ sink[Len(sink)].image.bytes = last.buffer.data

\* the size the pixel format of an image implies
expected_size(format, width, height) ==
    CASE format = "rgb24" -> width * height * 3
      [] format = "rgba32" -> width * height * 4
      [] format = "grayscale8" -> width * height
      [] format \in {"NV12", "Y_U_V12_LimitedRange"} ->
            (width * height * 3) \div 2

\* C7: for every supported raw format, width and height, the bytes of the
\* image handed to the sink on the host route number exactly
\* expected_size(format, width, height), whatever the mapped size of the
\* buffer is.
C7_ExactImageSize ==
    (HostCall(last) /\ last.caps.format \in SupportedFormats)
    => \A i \in Images(last.ops) :
          Len(last.ops[i].image.bytes)
            = expected_size(last.ops[i].image.format,
                            last.ops[i].image.width, last.ops[i].image.height)

\* the bytes of the host NV12 buffer holding the same pixels without
\* padding: height rows of width luma bytes, then height/2 rows of width
\* chroma bytes
PackedNV12(width, height) ==
    [i \in 1..(width * height + width * (height \div 2)) |->
        IF i <= width * height
        THEN Luma(width, (i - 1) \div width, (i - 1) % width)
        ELSE Chroma(width, (i - 1 - width * height) \div width,
                    (i - 1 - width * height) % width)]

\* call c is a render of a device NV12 surface that was mapped
DeviceCall(c) ==
    /\ c.op = "render"
    /\ c.route = "nvmm"
    /\ c.ret = GST_FLOW_OK

\* C8: for a device NV12 surface of even height whose pitches are at least
\* the width, the device route yields exactly the image the host NV12 route
\* yields for the same pixels without padding.
C8_DepaddingExact ==
    (DeviceCall(last) /\ last.buffer.surface.height % 2 = 0)
    => LET w == last.buffer.surface.width
           h == last.buffer.surface.height
           host == process_regular_buffer(
                      Buffer("sysmem", TRUE, PackedNV12(w, h), 1, NoSurface),
                      [format |-> "NV12", width |-> w, height |-> h])
       IN  /\ host.ret = GST_FLOW_OK
           /\ last.image = host.image
           /\ Len(last.image.bytes) = w * h + w * (h \div 2)
           /\ \A i \in Images(last.ops) : last.ops[i].image = host.image

\* a padded surface of four rows, extracted and written to the sink
C8_Witness ==
    /\ DeviceCall(last)
    /\ last.buffer.surface.height = 4
    /\ last.buffer.surface.width > 1
    /\ last.buffer.surface.pitch[1] > last.buffer.surface.width
    /\ last.buffer.surface.pitch[2] > last.buffer.surface.width
    /\ Images(last.ops) /= {}

\* C9: on the host route a buffer whose format is outside the supported
\* set makes render return the not-negotiated result, and no sink operation
\* is invoked for it, whether or not image-path is configured.
C9_UnsupportedNotNegotiated ==
    (HostCall(last) /\ last.caps.format \notin SupportedFormats)
    => last.ret = GST_FLOW_NOT_NEGOTIATED /\ last.ops = <<>>

\* C10: when video-path is not configured, render of an encoded buffer
\* returns OK and invokes no sink operation, for every buffer and every
\* caps content, whether or not image-path is set; the session is left as
\* it was.
C10_NoPathNoOp ==
    [][ (last'.op = "render" /\ last'.route = "encoded" /\ video_path' = NULL)
        => /\ last'.ret = GST_FLOW_OK
           /\ last'.ops = <<>>
           /\ last'.maps = <<>>
           /\ sink' = sink
           /\ codec_sent' = codec_sent ]_vars

\* an encoded buffer without a width, rendered on an Active session with
\* image-path set and no video-path
C10_Witness ==
    /\ last.op = "render"
    /\ last.route = "encoded"
    /\ last.active
    /\ video_path = NULL
    /\ image_path /= NULL
    /\ last.caps.width = <<>>
    /\ last.ret = GST_FLOW_OK

\* call c is a render of an encoded buffer on an Active session
EncodedRender(c) == c.op = "render" /\ c.route = "encoded" /\ c.active

C12_MissingDimensionFails ==
    [][ (EncodedRender(last') /\ video_path' /= NULL
            /\ ~ValidDimensions(last'.caps))
        => /\ last'.ret = GST_FLOW_ERROR
           /\ last'.ops = <<>>
           /\ sink' = sink
           /\ codec_sent' = codec_sent
           /\ last'.maps = <<>> ]_vars

\* a first buffer without a height: refused before the announcement
C12_Witness ==
    /\ EncodedRender(last)
    /\ video_path /= NULL
    /\ last.caps.width = <<MaxDim>>
    /\ last.caps.height = <<>>
    /\ last.ret = GST_FLOW_ERROR
    /\ ~codec_sent
    /\ Announcements(sink) = {}

\* call c wrote a sample to the sink
Sampled(c) == c.op = "render" /\ Samples(c.ops) /= {}
\* the timestamp call c passed to the sink clock
SampleTime(c) ==
    LET i == CHOOSE i \in 1..Len(c.ops) : c.ops[i].op = "set_time_timestamp"
    IN  c.ops[i].time

\* C13: when two consecutive encoded buffers of a session carry decode
\* timestamps (unsigned values, the 'no timestamp' value included) that do
\* not decrease, the signed timestamps passed to the sink clock for their
\* samples do not decrease.
C13_MonotonicTimestamps ==
    [][ (Sampled(last) /\ Sampled(last')
            /\ last.buffer.dts <= last'.buffer.dts)
        => SampleTime(last) <= SampleTime(last') ]_vars

\* the positions of mapping operation m in the mapping operations of call c
At(c, m) == {i \in 1..Len(c.maps) : c.maps[i] = m}

\* C14: no mapping outlives a render call.  On every exit path of the
\* host, device and encoded routes the buffer mapping and the device-surface
\* mapping are each acquired at most once and, when acquired, released
\* exactly once before the call returns, after their acquisition; on the
\* device route the surface is unmapped before the buffer, whose unmapping
\* is the last mapping operation of the call.
C14_MappingsReleased ==
    last.op = "render"
    => /\ Cardinality(At(last, "gst_buffer_map")) <= 1
       /\ Cardinality(At(last, "NvBufSurfaceMap")) <= 1
       /\ Cardinality(At(last, "gst_buffer_unmap"))
            = Cardinality(At(last, "gst_buffer_map"))
       /\ Cardinality(At(last, "NvBufSurfaceUnMap"))
            = Cardinality(At(last, "NvBufSurfaceMap"))
       /\ \A i \in At(last, "gst_buffer_map") :
             /\ i = 1
             /\ Len(last.maps) \in At(last, "gst_buffer_unmap")
       /\ \A i \in At(last, "NvBufSurfaceMap") :
             \A j \in At(last, "NvBufSurfaceUnMap") :
                /\ i < j
                /\ \A k \in At(last, "gst_buffer_unmap") : j < k

\* a device buffer whose synchronization failed: both mappings were
\* acquired and both are released, the surface first
C14_Witness ==
    /\ last.op = "render"
    /\ last.route = "nvmm"
    /\ last.ret = GST_FLOW_ERROR
    /\ At(last, "NvBufSurfaceSyncForCpu failed") /= {}
    /\ At(last, "NvBufSurfaceUnMap") /= {}
    /\ At(last, "gst_buffer_unmap") /= {}

\* the positions in a log of the operations that write data: image writes,
\* codec announcements, clock advances and sample writes
Written(log) ==
    {i \in 1..Len(log) :
        log[i].op \in {"log", "log_static", "set_time_timestamp"}}

\* C15: with render, start and stop taken one at a time, no image write,
\* codec announcement, clock advance or sample write is invoked while the
\* session is not Active: a render on a session that is not Active invokes
\* none, stop leaves the session not Active with its stream deleted and
\* rec_stream null, and a stream holds no written data until a start has
\* succeeded on it.
C15_NothingWrittenWhileInactive ==
    [][ /\ (last'.op = "render" /\ ~last'.active)
           => last'.ops = <<>> /\ sink' = sink
        /\ Cardinality(Written(sink')) > Cardinality(Written(sink))
           => rerun_initialized /\ rerun_initialized' /\ last'.op = "render"
        /\ last'.op = "stop"
           => /\ ~rerun_initialized'
              /\ rec_stream' = nullptr
              /\ rec_stream \notin live'
        /\ ~rerun_initialized' => Written(sink') = {} ]_vars

\* a raw buffer rendered after the session was stopped, with image-path
\* set: extracted, not written
C15_Witness ==
    /\ last.op = "render"
    /\ last.route = "host"
    /\ ~last.active
    /\ streams >= 1
    /\ rec_stream = nullptr
    /\ image_path /= NULL
    /\ last.image.bytes /= <<>>
    /\ last.ret = GST_FLOW_OK
    /\ last.ops = <<>>

\* C16: whenever a start() made while the session is not Active fails, the
\* session is not Active, rec_stream is NULL and the RecordingStream that
\* start created has been deleted.
C16_FailedStartLeavesNothing ==
    (StartedInactive /\ last.ret = "FALSE")
    => /\ ~rerun_initialized
       /\ rec_stream = nullptr
       /\ streams \notin live

\* C17: in every reachable state at most one RecordingStream is live, and
\* when one is live rec_stream refers to it.
C17_AtMostOneHandle ==
    /\ Cardinality(live) <= 1
    /\ live /= {} => live = {rec_stream}

\* the caps name a compressed codec
EncodedName(caps) == caps.name \in {"video/x-h264", "video/x-h265"}
\* the first memory of the buffer comes from a known device allocator
DeviceMemory(buffer) ==
    buffer.allocator \in {"nvfiltermemoryallocator0", "nvdsmemoryallocator0"}
\* raw caps from which the video info can be read
RawCaps(caps) ==
    /\ caps.name = "video/x-raw"
    /\ caps.format /= NULL
    /\ caps.width /= <<>>
    /\ caps.height /= <<>>
\* the mapping operations of the device surface in call c
SurfaceMaps(c) ==
    {i \in 1..Len(c.maps) :
        c.maps[i] \in {"NvBufSurfaceMap", "NvBufSurfaceMap failed"}}

\* C18: every render hands the buffer to exactly one extractor and only
\* that route's sink operations occur: caps named video/x-h264 or
\* video/x-h265 select the encoded route whatever the memory of the buffer
\* (nothing is written to image-path, no image is built, the surface is not
\* mapped); otherwise a buffer of a known device allocator selects the
\* device route when device support is compiled in; every other buffer
\* selects the host route; the device and host routes write only images to
\* image-path and leave codec_sent alone.  (A render whose caps are missing
\* or cannot be read returns the error result before any extractor.)
C18_OneRoute ==
    [][ last'.op = "render"
        => LET c == last'.caps
               b == last'.buffer
           IN  /\ last'.route
                    = IF c /= NoCaps /\ EncodedName(c) THEN "encoded"
                      ELSE IF ~RawCaps(c) THEN NULL
                      ELSE IF have_nvmm /\ DeviceMemory(b) THEN "nvmm"
                      ELSE "host"
               /\ last'.route = "encoded"
                  => /\ Images(last'.ops) = {}
                     /\ \A i \in 1..Len(last'.ops) :
                           last'.ops[i].path \in {video_path', "time"}
                     /\ last'.image = EmptyImage
                     /\ SurfaceMaps(last') = {}
               /\ last'.route \in {"nvmm", "host"}
                  => /\ codec_sent' = codec_sent
                     /\ \A i \in 1..Len(last'.ops) :
                           /\ i \in Images(last'.ops)
                           /\ last'.ops[i].path = image_path'
               /\ last'.route = "host" => SurfaceMaps(last') = {}
               /\ (last'.route = "nvmm" /\ b.map_ok /\ ~b.surface.null)
                  => SurfaceMaps(last') /= {}
               /\ last'.route = NULL
                  => /\ last'.ret = GST_FLOW_ERROR
                     /\ last'.ops = <<>>
                     /\ last'.maps = <<>>
                     /\ codec_sent' = codec_sent ]_vars

\* an encoded buffer in device memory, in a build with device support and
\* with both paths set: a sample is written, no image
C18_Witness ==
    /\ last.op = "render"
    /\ have_nvmm
    /\ EncodedName(last.caps)
    /\ DeviceMemory(last.buffer)
    /\ last.active
    /\ image_path /= NULL
    /\ video_path /= NULL
    /\ last.route = "encoded"
    /\ Samples(last.ops) /= {}

\* call c is a host-route render of a buffer of a supported format
SupportedHostCall(c) == HostCall(c) /\ c.caps.format \in SupportedFormats

DeviceFailure(b) ==
    \/ ~b.map_ok
    \/ b.surface.null
    \/ ~b.surface.map_ok
    \/ ~b.surface.sync_ok
    \/ b.surface.addr_null[1]
    \/ b.surface.addr_null[2]

\* C20: on the device route a failure of the buffer mapping, of the surface
\* mapping or of the synchronization, and a null mapped pointer of the
\* luma or of the chroma plane, each make render return the error result,
\* and no image, empty or not, is forwarded to the sink.
C20_DeviceFailuresAbort ==
    [][ (last'.op = "render" /\ last'.route = "nvmm"
            /\ DeviceFailure(last'.buffer))
        => /\ last'.ret = GST_FLOW_ERROR
           /\ last'.ops = <<>>
           /\ sink' = sink ]_vars

\* a surface whose chroma pointer is null, on an Active session with
\* image-path set
C20_Witness ==
    /\ last.op = "render"
    /\ last.route = "nvmm"
    /\ last.active
    /\ image_path /= NULL
    /\ last.buffer.map_ok
    /\ last.buffer.surface.addr_null = <<FALSE, TRUE>>
    /\ last.ret = GST_FLOW_ERROR
    /\ Images(sink) = {}

\* call c is a render that did not return OK
FailedRender(c) == c.op = "render" /\ c.ret /= GST_FLOW_OK

\* call c is a render of a buffer that can be extracted: a raw host buffer
\* of a supported format, a device NV12 surface or an encoded buffer with
\* its dimensions, the mappings succeeding
ValidRender(c) ==
    /\ c.op = "render"
    /\ c.buffer.map_ok
    /\ \/ c.route = "host" /\ c.caps.format \in SupportedFormats
       \/ c.route = "nvmm" /\ c.caps.format = "NV12"
             /\ ~DeviceFailure(c.buffer)
       \/ c.route = "encoded" /\ ValidDimensions(c.caps)

\* C21: a render that returns a result other than OK (missing caps,
\* unparseable caps, unsupported format, map or sync failure, missing
\* dimension) leaves the session as it was: Active if it was, with the same
\* RecordingStream and the same properties; and a valid buffer rendered
\* right after it on an Active session is forwarded as usual: render
\* returns OK and writes the image to image-path or the sample to
\* video-path when that path is set.
C21_FailureKeepsSession ==
    [][ /\ FailedRender(last')
           => /\ rerun_initialized' = rerun_initialized
              /\ rec_stream' = rec_stream
              /\ live' = live
              /\ <<recording_id', image_path', video_path', spawn_viewer',
                    output_file', grpc_address'>>
                   = <<recording_id, image_path, video_path, spawn_viewer,
                       output_file, grpc_address>>
        /\ (FailedRender(last) /\ last.active /\ ValidRender(last'))
           => /\ last'.ret = GST_FLOW_OK
              /\ rerun_initialized'
              /\ (last'.route = "encoded" /\ video_path' /= NULL)
                 => /\ Cardinality(Samples(last'.ops)) = 1
                    /\ sink' = sink \o last'.ops
              /\ (last'.route /= "encoded" /\ image_path' /= NULL)
                 => /\ Len(last'.ops) = 1
                    /\ Images(last'.ops) = {1}
                    /\ last'.ops[1].path = image_path'
                    /\ sink' = sink \o last'.ops ]_vars

\* a device buffer whose synchronization failed, on an Active session
\* with image-path set: the session is Active on the same stream
C21_Witness ==
    /\ FailedRender(last)
    /\ last.route = "nvmm"
    /\ ~last.buffer.surface.sync_ok
    /\ last.active
    /\ image_path /= NULL
    /\ rerun_initialized
    /\ rec_stream \in live

\* the configuration has the conflict start() refuses
Conflict ==
    /\ output_file /= NULL
    /\ grpc_address /= NULL
    /\ grpc_address /= DEFAULT_GRPC_ADDRESS

\* C22: restart is always possible and Active is entered only by a
\* successful start.  A start() that follows a stop() runs on a session that
\* is not Active, whatever came before the stop; with a configuration that
\* has no conflict it fails only when the open operation it invokes fails,
\* and otherwise makes the session Active with a RecordingStream that did
\* not exist before.  The session becomes Active only in such a start and
\* leaves Active only in a stop.
C22_RestartPossible ==
    [][ /\ last'.op = "stop"
           => ~rerun_initialized' /\ rec_stream' = nullptr
        /\ (last.op = "stop" /\ last'.op = "start")
           => /\ ~last'.active
              /\ ~Conflict
                 => /\ last'.ret = "FALSE" => last'.ops /= <<>>
                    /\ last'.ret = "TRUE" => rerun_initialized'
        /\ (~rerun_initialized /\ rerun_initialized')
           => /\ last'.op = "start"
              /\ last'.ret = "TRUE"
              /\ rec_stream' /= nullptr
              /\ rec_stream' \notin 1..streams
              /\ rec_stream' \in live'
        /\ (rerun_initialized /\ ~rerun_initialized')
           => last'.op = "stop" ]_vars

\* the session Active again on a second RecordingStream, the first deleted
C22_Witness ==
    /\ last.op = "start"
    /\ ~last.active
    /\ rerun_initialized
    /\ rec_stream = 2
    /\ live = {2}

\* C23: a render call made while the session is not Active (stopped or
\* never started) is refused: it does not return OK and it does not map or
\* copy the buffer.
C23_RefusedWhenStopped ==
    (last.op = "render" /\ ~last.active)
    => /\ last.ret /= GST_FLOW_OK
       /\ last.maps = <<>>
       /\ last.image = EmptyImage

\* C24: if the pad has no current caps, or the caps are not encoded and
\* cannot be parsed into video info, render returns the error result
\* without mapping the buffer and without any sink operation.
C24_UnreadableCapsFail ==
    [][ (last'.op = "render"
            /\ \/ last'.caps = NoCaps
               \/ ~EncodedName(last'.caps) /\ ~RawCaps(last'.caps))
        => /\ last'.ret = GST_FLOW_ERROR
           /\ last'.maps = <<>>
           /\ last'.image = EmptyImage
           /\ last'.ops = <<>>
           /\ sink' = sink
           /\ codec_sent' = codec_sent ]_vars

\* raw caps without a format, with a buffer that could be mapped, on an
\* Active session with both paths set
C24_Witness ==
    /\ last.op = "render"
    /\ last.caps.name = "video/x-raw"
    /\ last.caps.format = NULL
    /\ last.buffer.map_ok
    /\ last.active
    /\ image_path /= NULL
    /\ video_path /= NULL
    /\ last.ret = GST_FLOW_ERROR

\* C25: every encoded-route call that forwards a sample invokes, in this
\* order, the codec announcement (only when no buffer of the session was
\* forwarded before), the clock advance on the "time" timeline to exactly
\* the decode timestamp of the buffer, and the sample write, the clock
\* advance never after the sample.
C25_AnnounceClockSample ==
    [][ Sampled(last')
        => LET n == Len(last'.ops)
           IN  /\ n \in {2, 3}
               /\ n = 3 => /\ last'.ops[1].op = "log_static"
                           /\ Samples(sink) = {}
               /\ last'.ops[n - 1].op = "set_time_timestamp"
               /\ last'.ops[n - 1].path = "time"
               /\ last'.ops[n - 1].time = last'.buffer.dts
               /\ Samples(last'.ops) = {n}
               /\ last'.ops[n].image.bytes = last'.buffer.data ]_vars

\* C26: the host extractor reads at most width * height *
\* bytes_per_pixel(format) bytes of the mapped buffer and never more than the
\* mapped size, for every supported format and every mapped size, a mapped
\* size larger than the size the caps imply included.
C26_ReadsAtMostFrame ==
    (SupportedHostCall(last) /\ last.buffer.map_ok)
    => /\ Len(last.image.bytes)
            <= PackedSize(last.caps.format, last.caps.width[1],
                          last.caps.height[1])
       /\ Len(last.image.bytes) <= Len(last.buffer.data)

\* the mapping operations of a device extraction that ran to its end
FullDeviceSequence ==
    <<"gst_buffer_map", "NvBufSurfaceMap", "NvBufSurfaceSyncForCpu", "copy",
      "NvBufSurfaceUnMap", "gst_buffer_unmap">>

\* C27: a device buffer whose format is not NV12 is never forwarded; it is
\* rejected with the not-negotiated result only once the buffer map, the
\* surface map, the synchronization and the plane pointers have been
\* obtained and the planes read, and both mappings are released before the
\* return (a failure of one of those steps returns the error result
\* instead).
C27_DeviceFormatRejectedLate ==
    (last.op = "render" /\ last.route = "nvmm" /\ last.caps.format /= "NV12")
    => /\ last.ops = <<>>
       /\ IF DeviceFailure(last.buffer)
          THEN last.ret = GST_FLOW_ERROR
          ELSE /\ last.ret = GST_FLOW_NOT_NEGOTIATED
               /\ last.maps = FullDeviceSequence

\* an RGB device buffer on an Active session with image-path set
C27_Witness ==
    /\ last.op = "render"
    /\ last.route = "nvmm"
    /\ last.caps.format = "RGB"
    /\ last.active
    /\ image_path /= NULL
    /\ last.ret = GST_FLOW_NOT_NEGOTIATED
    /\ last.maps = FullDeviceSequence

\* C28: an encoded-route call that returns the error result has invoked no
\* sink operation and leaves codec_sent as it was, at every point of
\* failure, a failure to map the buffer after the dimensions were validated
\* included.
C28_EncodedErrorAtomic ==
    [][ (last'.op = "render" /\ last'.route = "encoded"
            /\ last'.ret = GST_FLOW_ERROR)
        => /\ last'.ops = <<>>
           /\ sink' = sink
           /\ codec_sent' = codec_sent ]_vars

\* C29: every sample written goes to an entity path for which a descriptor
\* of the codec named by the caps of its buffer was announced earlier in the
\* same session, also when the codec or video-path changes between two
\* buffers of the session.
C29_SampleCodecAnnounced ==
    Sampled(last)
    => \A i \in Samples(sink) :
          i > Len(sink) - Len(last.ops)
          => \E j \in Announcements(sink) :
                /\ j < i
                /\ sink[j].path = sink[i].path
                /\ sink[j].codec = VideoCodec(last.caps.name)

\* C30: start() on a session that is already Active returns TRUE and does
\* nothing else: no RecordingStream is created, no open operation is
\* invoked, the configuration is not validated again (a conflict does not
\* make it fail) and codec_sent is not reset.
C30_StartWhenActiveNoOp ==
    [][ (last'.op = "start" /\ rerun_initialized)
        => /\ last'.ret = "TRUE"
           /\ last'.ops = <<>>
           /\ last'.active
           /\ UNCHANGED <<rec_stream, rerun_initialized, recording_id,
                          image_path, video_path, spawn_viewer, output_file,
                          grpc_address, codec_sent, streams, live, sink,
                          have_nvmm>> ]_vars

\* start() on an Active session whose codec was announced and whose
\* configuration now has the conflict
C30_Witness ==
    /\ last.op = "start"
    /\ last.active
    /\ Conflict
    /\ codec_sent
    /\ rerun_initialized
    /\ last.ret = "TRUE"

\* C31: in every reachable state rerun_initialized is TRUE only if
\* rec_stream is not NULL (and points to a live stream), and codec_sent is
\* TRUE only if rerun_initialized is TRUE.
C31_FlagsConsistent ==
    /\ rerun_initialized => rec_stream /= nullptr /\ rec_stream \in live
    /\ codec_sent => rerun_initialized

\* the codec announced by a buffer that could not be mapped: the flag is
\* set, on an Active session
C31_Witness ==
    /\ codec_sent
    /\ rerun_initialized
    /\ rec_stream /= nullptr
    /\ FailedRender(last)
    /\ last.route = "encoded"

\* the properties that select the target of the sink
TargetProperties == {"output-file", "grpc-address", "spawn-viewer",
                     "recording-id"}

\* C32: setting output-file, grpc-address, spawn-viewer or recording-id
\* while the session is Active opens, closes and switches nothing: the
\* stream, its log (the open operation of the last successful start
\* included), the session flags and the streams created are unchanged.  The
\* values are used only by a start() made while the session is not Active,
\* which then applies the conflict check and the precedence rule to the
\* values of that moment; a start() on the Active session ignores them.
C32_TargetFixedWhileActive ==
    [][ /\ (last'.op \in TargetProperties /\ rerun_initialized)
           => /\ UNCHANGED <<rec_stream, rerun_initialized, codec_sent,
                             streams, live, sink>>
              /\ last'.ops = <<>>
        /\ (last'.op = "start" /\ rerun_initialized)
           => last'.ops = <<>> /\ sink' = sink
        /\ (last'.op = "start" /\ ~rerun_initialized)
           => IF Conflict THEN last'.ret = "FALSE" /\ last'.ops = <<>>
              ELSE IF Selected[1] = "none" THEN last'.ops = <<>>
              ELSE /\ Len(last'.ops) = 1
                   /\ last'.ops[1].op = Selected[1]
                   /\ last'.ops[1].path = Selected[2] ]_vars

\* output-file set on a session whose target is the spawned viewer
C32_Witness ==
    /\ last.op = "output-file"
    /\ last.active
    /\ rerun_initialized
    /\ output_file /= NULL
    /\ sink /= <<>>
    /\ sink[1].op = "spawn"

\* C33: after dispose, whatever property sets, starts, renders and stops
\* came before, nothing the element owns remains allocated: the strings
\* recording_id, image_path, video_path, output_file and grpc_address have
\* been freed (the fields are NULL) and no RecordingStream is live.
C33_NothingLeftAfterDispose ==
    Disposed
    => /\ recording_id = NULL
       /\ image_path = NULL
       /\ video_path = NULL
       /\ output_file = NULL
       /\ grpc_address = NULL
       /\ live = {}

\* a step of render that hands the path of the property to the stream
PassesPath(prop_id) ==
    /\ Len(sink') > Len(sink)
    /\ streaming.pc \in (IF prop_id = "image-path" THEN {"log_image"}
                         ELSE {"log_static", "log_sample"})

\* C34: with a setter of image-path or video-path interleaved step by step,
\* without a lock, with a render call, render never passes to the stream a
\* path string that the setter has already freed.
C34_NoFreedPathPassed ==
    [][\A prop_id \in PathProperties :
          PassesPath(prop_id) => prop_id \notin freed]_vars

=============================================================================
